---- MODULE Spec2Model ----
(***************************************************************************)
(* Model of src/pipelines/ner.rs: NERModel (the spec's EntityExtractor),   *)
(* a thin wrapper that owns one TokenClassificationModel (the spec's       *)
(* TokenClassifier), asks it for the flat token stream of a batch of texts *)
(* and turns every token whose label is not "O" into an Entity.            *)
(*                                                                         *)
(* TokenClassificationModel lives in pipelines/token_classification.rs,    *)
(* outside ner.rs: it is modelled from the specification of its interface  *)
(* as a deterministic stub (TokenClassificationModel_new,                  *)
(* TokenClassificationModel_predict, the variable stub).                   *)
(*                                                                         *)
(* Scores are f64 in the code and are never computed with: they are        *)
(* modelled as integers in units of 1e-4 (0.9986 is 9986).                 *)
(***************************************************************************)
EXTENDS Integers, Sequences, FiniteSets, TLC

\* ------------------------------------------------------------------ bounds
\* Longest token stream the stub returns for the free text "x".
MaxTokens == 2
\* Longest input batch handed to predict.
MaxBatch == 2
\* Number of TokenClassificationModel instances constructed in one behaviour.
MaxNew == 2

\* ------------------------------------------------------------ the data model
\* The label the filter of predict compares against (ner.rs line 138).
Sentinel == "O"

Tok(t, s, l) == [text |-> t, score |-> s, label |-> l]

\* The two sentences of the module documentation (ner.rs lines 26-29) and the
\* token results that lead to the documented output (lines 39-60).
Doc1 == "My name is Amy. I live in Paris."
Doc2 == "Paris is a city in France."
Doc1Tokens ==
    << Tok("My", 9999, "O"), Tok("name", 9998, "O"), Tok("is", 9999, "O"),
       Tok("Amy", 9986, "I-PER"), Tok(".", 9999, "O"), Tok("I", 9997, "O"),
       Tok("live", 9999, "O"), Tok("in", 9999, "O"),
       Tok("Paris", 9985, "I-LOC"), Tok(".", 9999, "O") >>
Doc2Tokens ==
    << Tok("Paris", 9988, "I-LOC"), Tok("is", 9999, "O"), Tok("a", 9999, "O"),
       Tok("city", 9998, "O"), Tok("in", 9999, "O"),
       Tok("France", 9993, "I-LOC"), Tok(".", 9999, "O") >>

\* The texts a caller passes: the empty string, the two documented sentences
\* and one free text whose token results the stub chooses.
FreeText == "x"
Texts == {"", Doc1, Doc2, FreeText}

\* Token results the stub may return for the free text: a non-entity token,
\* an entity whose text happens to be the letter O, and three entity tokens of
\* which two are adjacent pieces of one name with the same label.
TokenPool ==
    { Tok("the", 9999, "O"), Tok("O", 6120, "I-MISC"), Tok("Amy", 9986, "I-PER"),
      Tok("New", 9991, "I-LOC"), Tok("York", 9990, "I-LOC") }

SeqsUpTo(S, n) == UNION {[1..k -> S] : k \in 0..n}

Batches == SeqsUpTo(Texts, MaxBatch)

\* Configurations (opaque to ner.rs): two the collaborator accepts and two it
\* rejects, each with its own error kind.
GoodConfigs == {"default", "custom"}
BadConfigs == {"missing_vocab", "bad_weights"}
Configs == GoodConfigs \cup BadConfigs

\* The caller holds no NERModel: a placeholder that owns no instance (ids of
\* real instances start at 1).
NoModel == [token_classification_model |-> [id |-> 0, config |-> "none"]]
Panic == "panic"

VARIABLES
    stub,         \* the stub collaborator's token results for the free text
    ner_model,    \* the caller's NERModel, or NoModel
    constructed,  \* number of TokenClassificationModel instances built so far
    alive,        \* ids of the TokenClassificationModel instances not yet dropped
    calls,        \* the collaborator calls made by the last operation
    ret,          \* the last operation, its argument and what it returned
    repeated      \* the last operation was a predict with the input of the
                  \* predict right before it on the same NERModel

vars == <<stub, ner_model, constructed, alive, calls, ret, repeated>>

\* ------------------------------------------- the collaborator (from the spec)
\* TokenClassifier::new(config): fails for a configuration whose resources are
\* missing or incompatible, otherwise yields a fresh instance.
ConstructionError(config) ==
    IF config = "missing_vocab" THEN "ResourceNotFound" ELSE "IncompatibleModel"

TokenClassificationModel_new(config, id) ==
    IF config \in GoodConfigs
    THEN [ok |-> TRUE, value |-> [id |-> id, config |-> config]]
    ELSE [ok |-> FALSE, err |-> ConstructionError(config)]

\* The token results of one text: none for the empty string, the documented
\* ones for the documented sentences, the stub's for the free text.
TokensOf(text) ==
    CASE text = "" -> << >>
      [] text = Doc1 -> Doc1Tokens
      [] text = Doc2 -> Doc2Tokens
      [] OTHER -> stub

RECURSIVE Flatten(_)
Flatten(ss) == IF ss = << >> THEN << >> ELSE Head(ss) \o Flatten(Tail(ss))

\* TokenClassifier::predict(inputs, consolidate, sentence_split): one flat
\* stream, all tokens of input[1] before all tokens of input[2], ...; or a
\* failure in the middle of inference (fault), which in Rust, where the call
\* returns a plain Vec, is a panic.
TokenClassificationModel_predict(model, input, consolidate, sentence_split, fault) ==
    IF fault THEN [ok |-> FALSE, err |-> Panic]
    ELSE [ok |-> TRUE,
          value |-> Flatten([i \in 1..Len(input) |-> TokensOf(input[i])])]

\* ------------------------------------------------------------------ ner.rs
\* Variant of NERModel_new: unwrap() in place of `?`, a panic on every
\* construction error.
NERModel_new_unwrap(ner_config, id) ==
    LET model == TokenClassificationModel_new(ner_config, id)
    IN  IF model.ok
        THEN [calls |-> << [fn |-> "new", config |-> ner_config] >>,
              result |-> [ok |-> TRUE,
                          value |-> [token_classification_model |-> model.value]]]
        ELSE [calls |-> << [fn |-> "new", config |-> ner_config] >>,
              result |-> [ok |-> FALSE, err |-> Panic]]

\* NERModel::new, lines 102-107: `?` returns the collaborator's error to the
\* caller (through From, the identity on failure::Error); otherwise the model
\* is stored in the one field of the struct.
NERModel_new(ner_config, id) ==
    LET model == TokenClassificationModel_new(ner_config, id)
    IN  IF model.ok
        THEN [calls |-> << [fn |-> "new", config |-> ner_config] >>,
              result |-> [ok |-> TRUE,
                          value |-> [token_classification_model |-> model.value]]]
        ELSE [calls |-> << [fn |-> "new", config |-> ner_config] >>,
              result |-> [ok |-> FALSE, err |-> model.err]]

\* Variant of ClassifierCall: the two flags the other way round.
ClassifierCall_flagsSwapped(self, input) ==
    [fn |-> "predict", model |-> self.token_classification_model,
     input |-> input, consolidate |-> FALSE, sentence_split |-> TRUE]

\* Lines 135-136: the one call of the collaborator, with the literal flags.
ClassifierCall(self, input) ==
    [fn |-> "predict", model |-> self.token_classification_model,
     input |-> input, consolidate |-> TRUE, sentence_split |-> FALSE]

\* Variants of KeepToken: the comparison made on the token's text, and the
\* comparison inverted.
KeepToken_byText(token) == token.text # Sentinel
KeepToken_inverted(token) == token.label = Sentinel

\* Line 138: the closure handed to filter.
KeepToken(token) == token.label # Sentinel

\* Variant of ToEntity: the score rounded to three decimals.
ToEntity_rounded(token) ==
    [word |-> token.text, score |-> (token.score \div 10) * 10, label |-> token.label]

\* Lines 139-143: the closure handed to map.
ToEntity(token) ==
    [word |-> token.text, score |-> token.score, label |-> token.label]

\* Lines 137-144: into_iter().filter(..).map(..).collect(), one pass from the
\* first token to the last, pushing each mapped survivor at the back.
RECURSIVE CollectFrom(_, _)
CollectFrom(tokens, i) ==
    IF i > Len(tokens) THEN << >>
    ELSE IF KeepToken(tokens[i])
         THEN <<ToEntity(tokens[i])>> \o CollectFrom(tokens, i + 1)
         ELSE CollectFrom(tokens, i + 1)

\* Variant of Collect: a survivor next to a survivor with the same label is
\* folded into it (the span keeps the first word and score).
RECURSIVE MergeSameLabel(_)
MergeSameLabel(es) ==
    IF Len(es) < 2 THEN es
    ELSE IF es[1].label = es[2].label
         THEN MergeSameLabel(<<es[1]>> \o Tail(Tail(es)))
         ELSE <<es[1]>> \o MergeSameLabel(Tail(es))
Collect_merging(tokens) == MergeSameLabel(CollectFrom(tokens, 1))

\* Variant of Collect: each survivor pushed at the front.
RECURSIVE ReverseSeq(_)
ReverseSeq(q) == IF q = << >> THEN << >> ELSE ReverseSeq(Tail(q)) \o <<Head(q)>>
Collect_reversed(tokens) == ReverseSeq(CollectFrom(tokens, 1))

Collect(tokens) == CollectFrom(tokens, 1)

\* Variant of NERModel_predict: a failure of the collaborator is caught and
\* turned into the empty result.
NERModel_predict_swallow(self, input, fault) ==
    LET call == ClassifierCall(self, input)
        tokens == TokenClassificationModel_predict(
                      call.model, call.input, call.consolidate,
                      call.sentence_split, fault)
    IN  [calls |-> << call @@ [returned |-> tokens] >>,
         self |-> self,
         out |-> IF tokens.ok
                 THEN [ok |-> TRUE, value |-> Collect(tokens.value)]
                 ELSE [ok |-> TRUE, value |-> << >>]]

\* Variant of NERModel_predict: the stored model is taken out of self for the
\* call and a model of the default configuration is left in its place.
NERModel_predict_take(self, input, fault) ==
    LET call == ClassifierCall(self, input)
        tokens == TokenClassificationModel_predict(
                      call.model, call.input, call.consolidate,
                      call.sentence_split, fault)
    IN  [calls |-> << call @@ [returned |-> tokens] >>,
         self |-> [token_classification_model |->
                      [id |-> self.token_classification_model.id, config |-> "default"]],
         out |-> IF tokens.ok
                 THEN [ok |-> TRUE, value |-> Collect(tokens.value)]
                 ELSE tokens]

\* Variant of NERModel_predict: the model is loaded again at every call.
NERModel_predict_reload(self, input, fault) ==
    LET config == self.token_classification_model.config
        fresh == [token_classification_model |->
                     TokenClassificationModel_new(config, constructed + 1).value]
        call == ClassifierCall(fresh, input)
        tokens == TokenClassificationModel_predict(
                      call.model, call.input, call.consolidate,
                      call.sentence_split, fault)
    IN  [calls |-> << [fn |-> "new", config |-> config],
                      call @@ [returned |-> tokens] >>,
         self |-> fresh,
         out |-> IF tokens.ok
                 THEN [ok |-> TRUE, value |-> Collect(tokens.value)]
                 ELSE tokens]

\* NERModel::predict, lines 134-145: &self is not changed; a panic of the
\* collaborator unwinds through the function (nothing catches it).
NERModel_predict(self, input, fault) ==
    LET call == ClassifierCall(self, input)
        tokens == TokenClassificationModel_predict(
                      call.model, call.input, call.consolidate,
                      call.sentence_split, fault)
    IN  [calls |-> << call @@ [returned |-> tokens] >>,
         self |-> self,
         out |-> IF tokens.ok
                 THEN [ok |-> TRUE, value |-> Collect(tokens.value)]
                 ELSE tokens]

\* ------------------------------------------------------------- the actions
\* What the collaborator calls of one operation do to the world: every
\* successful constructor call builds one instance.
Built(cs) ==
    Cardinality({i \in DOMAIN cs : cs[i].fn = "new" /\ cs[i].config \in GoodConfigs})

\* The streams the stub may return for the free text in the behaviours that
\* follow the life of a NERModel: none, a non-entity token only, and a stream
\* with entity tokens around a non-entity token.
LifeStubs ==
    { << >>,
      << Tok("the", 9999, "O") >>,
      << Tok("New", 9991, "I-LOC"), Tok("the", 9999, "O"), Tok("York", 9990, "I-LOC") >> }

Init ==
    /\ stub \in LifeStubs
    /\ ner_model = NoModel
    /\ constructed = 0
    /\ alive = {}
    /\ calls = << >>
    /\ ret = [op |-> "none", arg |-> "none", result |-> [ok |-> TRUE, value |-> << >>]]
    /\ repeated = FALSE

\* let ner_model = NERModel::new(config)
New(config) ==
    /\ ner_model = NoModel
    /\ constructed < MaxNew
    /\ \E eff \in {NERModel_new(config, constructed + 1)} :
           /\ calls' = eff.calls
           /\ constructed' = constructed + Built(eff.calls)
           /\ ner_model' = IF eff.result.ok THEN eff.result.value ELSE ner_model
           /\ alive' = IF eff.result.ok
                       THEN alive \cup {eff.result.value.token_classification_model.id}
                       ELSE alive
           /\ ret' = [op |-> "new", arg |-> config, result |-> eff.result]
    /\ repeated' = FALSE
    /\ UNCHANGED stub

\* ner_model.predict(&input); fault: the collaborator fails during inference.
Predict(input, fault) ==
    /\ ner_model # NoModel
    /\ \E eff \in {NERModel_predict(ner_model, input, fault)} :
           /\ calls' = eff.calls
           /\ constructed' = constructed + Built(eff.calls)
           /\ ner_model' = eff.self
           /\ alive' = (alive \ {ner_model.token_classification_model.id})
                           \cup {eff.self.token_classification_model.id}
           /\ ret' = [op |-> "predict", arg |-> input, result |-> eff.out]
    /\ repeated' = (ret.op = "predict" /\ ret.arg = input)
    /\ UNCHANGED stub

\* The caller lets go of the NERModel: the struct owns its one field, so the
\* TokenClassificationModel is released with it.
Drop ==
    /\ ner_model # NoModel
    /\ ner_model' = NoModel
    /\ alive' = alive \ {ner_model.token_classification_model.id}
    /\ calls' = << >>
    /\ ret' = [op |-> "drop", arg |-> "none", result |-> [ok |-> TRUE, value |-> << >>]]
    /\ repeated' = FALSE
    /\ UNCHANGED <<stub, constructed>>

Next ==
    \/ \E config \in Configs : New(config)
    \/ \E input \in Batches, fault \in BOOLEAN : Predict(input, fault)
    \/ Drop

Spec == Init /\ [][Next]_vars

\* The filter and the map of predict as a function of the token stream: the
\* stub's stream for the free text is any stream over TokenPool of at most
\* MaxTokens tokens, the NERModel has just been built from the default
\* configuration (the state New("default") leaves), and the collaborator does
\* not fail.
InitStream ==
    LET eff == NERModel_new("default", 1)
    IN  /\ stub \in SeqsUpTo(TokenPool, MaxTokens)
        /\ ner_model = eff.result.value
        /\ constructed = 1
        /\ alive = {1}
        /\ calls = eff.calls
        /\ ret = [op |-> "new", arg |-> "default", result |-> eff.result]
        /\ repeated = FALSE

NextStream == \E input \in Batches : Predict(input, FALSE)

SpecStream == InitStream /\ [][NextStream]_vars

\* ------------------------------------------------------------- the claims
\* The last operation was a predict that returned to its caller.
PredictReturned == ret.op = "predict" /\ ret.result.ok
\* What it returned, and the flat stream the collaborator had handed it.
Output == ret.result.value
Stream == calls[1].returned.value

\* Positions of the stream whose label is not "O", and the number of them up
\* to position i.
NonO(stream) == {i \in DOMAIN stream : stream[i].label # "O"}
Rank(stream, i) == Cardinality({j \in NonO(stream) : j <= i})

\* The entities one text contributes: its token results that are not
\* labelled "O", in their order, as word, score and label.
EntitiesOfText(text) ==
    LET kept == SelectSeq(TokensOf(text), LAMBDA t : t.label # "O")
    IN  [k \in 1..Len(kept) |->
            [word |-> kept[k].text, score |-> kept[k].score, label |-> kept[k].label]]

DocumentedOutput ==
    << [word |-> "Amy", score |-> 9986, label |-> "I-PER"],
       [word |-> "Paris", score |-> 9985, label |-> "I-LOC"],
       [word |-> "Paris", score |-> 9988, label |-> "I-LOC"],
       [word |-> "France", score |-> 9993, label |-> "I-LOC"] >>

\* C1: whatever stream the classifier returns, no Entity that predict
\* returns has the label "O".
C1_NoSentinelLabel ==
    PredictReturned => \A k \in DOMAIN Output : Output[k].label # "O"

\* A predict whose stream held tokens labelled "O" and an entity whose text
\* is the letter O, and which returned entities.
C1_Witness ==
    /\ PredictReturned
    /\ \E i \in DOMAIN Stream : Stream[i].label = "O"
    /\ \E i \in DOMAIN Stream : Stream[i].text = "O" /\ Stream[i].label # "O"
    /\ Output # << >>

\* C2: predict returns one Entity for each token result whose label is not
\* "O" and nothing else: the output is as long as the stream has such tokens,
\* never longer than the stream, and the two documented sentences yield
\* exactly the four documented entities.
C2_OneEntityPerEntityToken ==
    PredictReturned =>
        /\ Len(Output) = Cardinality(NonO(Stream))
        /\ Len(Output) <= Len(Stream)
        /\ ret.arg = <<Doc1, Doc2>> => Output = DocumentedOutput

\* The documented call: both sentences, four entities, of which the second
\* and the third are neighbours with the same label.
C2_Witness ==
    /\ PredictReturned
    /\ ret.arg = <<Doc1, Doc2>>
    /\ Len(Output) = 4
    /\ Output[2].label = Output[3].label
    /\ Len(Stream) > 4

\* C3: the entities come in the order of their source tokens: the output is
\* the entities of input 1 in their order, then those of input 2, and so on.
C3_OrderPreserved ==
    PredictReturned =>
        [k \in DOMAIN Output |-> Output[k].word]
            = Flatten([i \in 1..Len(ret.arg) |->
                          [k \in DOMAIN EntitiesOfText(ret.arg[i]) |->
                              EntitiesOfText(ret.arg[i])[k].word]])

\* A batch of two different texts, the first with at least two entities of
\* different words, the second with an entity.
C3_Witness ==
    /\ PredictReturned
    /\ Len(ret.arg) = 2
    /\ ret.arg[1] # ret.arg[2]
    /\ Len(EntitiesOfText(ret.arg[1])) >= 2
    /\ EntitiesOfText(ret.arg[1])[1].word # EntitiesOfText(ret.arg[1])[2].word
    /\ EntitiesOfText(ret.arg[2]) # << >>
    /\ Output = EntitiesOfText(ret.arg[1]) \o EntitiesOfText(ret.arg[2])

\* C4: the Entity made from a surviving token carries that token's text as
\* word, its score and its label, unchanged.
C4_FieldFidelity ==
    PredictReturned =>
        \A i \in NonO(Stream) :
            /\ Rank(Stream, i) \in DOMAIN Output
            /\ Output[Rank(Stream, i)].word = Stream[i].text
            /\ Output[Rank(Stream, i)].score = Stream[i].score
            /\ Output[Rank(Stream, i)].label = Stream[i].label

\* A predict whose stream held a token with a score that is no multiple of
\* ten and a text equal to the sentinel, returned as it was.
C4_Witness ==
    /\ PredictReturned
    /\ \E k \in DOMAIN Output : Output[k] = [word |-> "Amy", score |-> 9986, label |-> "I-PER"]
    /\ \E k \in DOMAIN Output : Output[k] = [word |-> "O", score |-> 6120, label |-> "I-MISC"]

\* C5: every predict calls the classifier's predict exactly once, with the
\* caller's batch as it is, consolidate = true and sentence_split = false.
C5_OneCallFixedFlags ==
    ret.op = "predict" =>
        /\ Len(calls) = 1
        /\ calls[1].fn = "predict"
        /\ calls[1].input = ret.arg
        /\ calls[1].consolidate = TRUE
        /\ calls[1].sentence_split = FALSE

\* A predict on a batch of two texts.
C5_Witness ==
    /\ ret.op = "predict"
    /\ Len(ret.arg) = 2
    /\ ret.arg[1] # ret.arg[2]
    /\ calls[1].input = ret.arg

\* C6: when no input yields a token with a label other than "O" (every input
\* the empty string, no input at all, or non-entity tokens only), predict
\* returns the empty sequence and does not fail.
C6_EmptyWhenNoEntityToken ==
    (/\ ret.op = "predict"
     /\ \A i \in DOMAIN ret.arg :
            \/ ret.arg[i] = ""
            \/ \A j \in DOMAIN TokensOf(ret.arg[i]) : TokensOf(ret.arg[i])[j].label = "O")
    => ret.result = [ok |-> TRUE, value |-> << >>]

\* A predict on the empty string and a text with non-entity tokens only.
C6_Witness ==
    /\ ret.op = "predict"
    /\ ret.arg = <<"", FreeText>>
    /\ stub # << >>
    /\ \A j \in DOMAIN stub : stub[j].label = "O"
    /\ ret.result = [ok |-> TRUE, value |-> << >>]

\* C7: when the construction of the classifier fails, new fails with the same
\* error and returns no NERModel; when it succeeds, new succeeds with a
\* NERModel that holds the instance built.
C7_ConstructionFailurePropagates ==
    ret.op = "new" =>
        LET built == TokenClassificationModel_new(ret.arg, constructed)
        IN  IF built.ok
            THEN /\ ret.result = [ok |-> TRUE,
                                  value |-> [token_classification_model |-> built.value]]
                 /\ ner_model = ret.result.value
            ELSE /\ ret.result = [ok |-> FALSE, err |-> built.err]
                 /\ ner_model = NoModel

\* A new that failed for want of a resource.
C7_Witness ==
    /\ ret.op = "new"
    /\ ret.arg = "missing_vocab"
    /\ ret.result = [ok |-> FALSE, err |-> "ResourceNotFound"]

\* C8: when the classifier fails during inference, predict ends with that
\* same failure and returns no Entity sequence.
C8_InferenceFailurePropagates ==
    ret.op = "predict" =>
        \A i \in DOMAIN calls :
            (calls[i].fn = "predict" /\ ~calls[i].returned.ok)
                => ret.result = calls[i].returned

\* A predict on a batch with entities during which the classifier failed.
C8_Witness ==
    /\ ret.op = "predict"
    /\ ret.arg = <<Doc1>>
    /\ ~calls[1].returned.ok
    /\ ~ret.result.ok

\* C9: a predict leaves the NERModel as it was, and a predict with the input
\* of the predict before it returns what that one returned.
C9_PredictIdempotent ==
    [][ret'.op = "predict" =>
          /\ ner_model' = ner_model
          /\ (repeated' /\ ret.result.ok /\ ret'.result.ok) => ret'.result = ret.result
      ]_vars

\* A repeated predict, on a NERModel of the custom configuration, that
\* returned entities.
C9_Witness ==
    /\ repeated
    /\ PredictReturned
    /\ Output # << >>
    /\ ner_model.token_classification_model.config = "custom"

\* C10: a new calls the classifier's constructor once, with its
\* configuration, and runs no inference; when it succeeds, exactly one
\* instance was built and the NERModel holds it. A predict builds, replaces
\* and releases no instance and calls the instance the NERModel was built with.
C10_OneClassifierPerModel ==
    [][/\ ret'.op = "new" =>
            /\ calls' = << [fn |-> "new", config |-> ret'.arg] >>
            /\ constructed' = constructed + (IF ret'.result.ok THEN 1 ELSE 0)
            /\ ret'.result.ok =>
                  /\ ner_model'.token_classification_model
                        = [id |-> constructed', config |-> ret'.arg]
                  /\ alive' = alive \cup {constructed'}
            /\ ~ret'.result.ok => (alive' = alive /\ ner_model' = ner_model)
       /\ ret'.op = "predict" =>
            /\ constructed' = constructed
            /\ alive' = alive
            /\ ner_model'.token_classification_model = ner_model.token_classification_model
            /\ \A i \in DOMAIN calls' :
                  /\ calls'[i].fn = "predict"
                  /\ calls'[i].model = ner_model.token_classification_model
      ]_vars

\* A predict on the second NERModel of a behaviour, after the first was
\* dropped: it called the second instance, the only one alive.
C10_Witness ==
    /\ ret.op = "predict"
    /\ constructed = 2
    /\ alive = {2}
    /\ calls[1].model.id = 2
    /\ ner_model.token_classification_model.id = 2
====
